---- MODULE Spec2Model ----
(***************************************************************************)
(* Obsidian-GitHub-Sync (src/main.ts): the per-note sync engine            *)
(* (syncNoteWithGitHub), the batch run (SyncAllTargetedNotes) and the      *)
(* target registry (settings.noteTargets, setNoteTarget and the vault      *)
(* rename/delete handlers), with the vault, the GitHub contents API and    *)
(* the notification display as their environment.                          *)
(*                                                                         *)
(* The plugin runs on one JavaScript thread: a handler runs without        *)
(* interruption up to its next await, so every action below is the code    *)
(* between two awaits.                                                     *)
(***************************************************************************)
EXTENDS Integers, Sequences, FiniteSets, TLC

\* ------------------------------------------------------------------ bounds

\* How many invocations (batch runs and manual syncs) a behaviour starts.
MaxInvocations == 1

\* The invocations in flight at the same time under Spec: one.
Procs == {"p1"}

\* ------------------------------------------------------------- value sets

\* Note paths of the vault (TFile.path, the keys of settings.noteTargets).
Paths == {"A.md", "B.md"}

\* Texts a note can hold.
Texts == {"text"}

\* vault[p]: what p resolves to: no file, a folder (a TAbstractFile that is
\* no TFile), or a note, given by its text.
NoFile == "nofile"
Folder == "folder"
VaultEntries == {NoFile, Folder} \cup Texts

\* NoteSyncTarget values (main.ts 14-20).
T1 == [repoUrl  |-> "https://github.com/alice/notes/blob/main/docs/page.md",
       owner    |-> "alice",
       repo     |-> "notes",
       branch   |-> "main",
       filePath |-> "docs/page.md"]

T2 == [repoUrl  |-> "https://raw.githubusercontent.com/bob/wiki/dev/a.md",
       owner    |-> "bob",
       repo     |-> "wiki",
       branch   |-> "dev",
       filePath |-> "a.md"]

Targets == {T1, T2}

\* The null that setNoteTarget takes for "clear" (main.ts 237, 371).
Null == [null |-> TRUE]

\* The remote file a target names: GET and PUT address owner/repo/filePath
\* at branch (main.ts 196, 201, 219).
Loc(t) == <<t.owner, t.repo, t.branch, t.filePath>>

Locs == {Loc(t) : t \in Targets}

\* ------------------------------------------------------------ conversions

\* Buffer.from(content, 'utf8').toString('base64') (main.ts 189): the wire
\* form of a text, distinct from the text.
Base64(text) == <<"b64", text>>

\* What a remote file holds: absent, a pushed note, or another committer's
\* content.
Absent == <<"absent">>
Other == <<"other">>
RemoteContents == {Base64(t) : t \in Texts} \cup {Other}

\* The revision marker GitHub reports for a file (the blob sha): a function
\* of the content.
Sha(c) == <<"sha", c>>

\* existingSha before assignment, and JSON.stringify dropping an undefined
\* sha from the body.
Undefined == <<"undefined">>

\* The marker of a remote file as the contents API sees it.
RevOf(c) == IF c = Absent THEN Undefined ELSE Sha(c)

\* githubToken values, as sequences of characters: "t" a token character,
\* " " white space. TokenValues are the values a loaded token has,
\* TokenInputs what the settings tab's field can hold.
TokenValues == {<<>>, <<" ">>, <<"t">>}
TokenInputs == TokenValues \cup {<<" ", "t">>}

RECURSIVE TrimLeft(_)
TrimLeft(s) == IF s # <<>> /\ Head(s) = " " THEN TrimLeft(Tail(s)) ELSE s

RECURSIVE TrimRight(_)
TrimRight(s) ==
  IF s # <<>> /\ s[Len(s)] = " " THEN TrimRight(SubSeq(s, 1, Len(s) - 1)) ELSE s

\* String.prototype.trim.
Trim(s) == TrimRight(TrimLeft(s))

\* ----------------------------------------------------- the text of a URL

\* The text of the prompt's input field is a sequence of pieces: " " is
\* white space, Scheme the scheme with its "//", then a host name, "/" and
\* the percent-encoded pieces between the slashes; any other piece is text
\* that is no URL.
Scheme == "https://"
HostNames == {"github.com", "GitHub.com", "raw.githubusercontent.com",
              "gitlab.com"}

\* The text as one string (what is stored as repoUrl).
RECURSIVE Text(_)
Text(value) == IF value = <<>> THEN "" ELSE Head(value) \o Text(Tail(value))

\* encodeURIComponent and decodeURIComponent on the path segments used
\* here; a piece with a malformed escape makes decodeURIComponent throw.
EncodeURIComponent(segment) == IF segment = "a b.md" THEN "a%20b.md" ELSE segment
DecodeURIComponent(piece) == IF piece = "a%20b.md" THEN "a b.md" ELSE piece
DecodeThrows(piece) == piece = "%zz"

\* A URL's text built from a host and path segments, each segment encoded
\* and preceded by "/"; an empty segment leaves two slashes in a row.
RECURSIVE BuildPath(_)
BuildPath(segments) ==
  IF segments = <<>> THEN <<>>
  ELSE (IF Head(segments) = "" THEN <<"/">>
        ELSE <<"/", EncodeURIComponent(Head(segments))>>)
       \o BuildPath(Tail(segments))

BuildUrl(host, segments) == <<Scheme, host>> \o BuildPath(segments)

\* main.ts 402: new URL(url) throws for a text that is no absolute URL.
UrlThrows(url) ==
  ~(/\ Len(url) >= 2
    /\ url[1] = Scheme
    /\ url[2] \in HostNames
    /\ Len(url) > 2 => url[3] = "/")

\* main.ts 403: parsedUrl.hostname.toLowerCase().
ToLowerCase(host) == IF host = "GitHub.com" THEN "github.com" ELSE host

\* String.prototype.split('/'): the strings between the slashes, the empty
\* ones included.
RECURSIVE Split(_)
Split(path) ==
  IF path = <<>> THEN <<"">>
  ELSE IF Head(path) = "/" THEN <<"">> \o Split(Tail(path))
  ELSE LET rest == Split(Tail(path))
       IN  <<Head(path) \o Head(rest)>> \o Tail(rest)

\* The URL parser resolving the dot segments of a path: ".." takes the
\* segment before it away, "." is dropped, and either leaves an empty
\* segment when it is the last.
RECURSIVE ResolveDots(_, _)
ResolveDots(done, rest) ==
  IF rest = <<>> THEN done
  ELSE LET end == IF Len(rest) = 1 THEN <<"">> ELSE <<>>
       IN  IF Head(rest) = ".."
             THEN ResolveDots(SubSeq(done, 1, Len(done) - 1) \o end, Tail(rest))
           ELSE IF Head(rest) = "."
             THEN ResolveDots(done \o end, Tail(rest))
           ELSE ResolveDots(Append(done, Head(rest)), Tail(rest))

\* The text of a path of the given segments.
RECURSIVE PathOf(_)
PathOf(segments) ==
  IF segments = <<>> THEN <<>>
  ELSE (IF Head(segments) = "" THEN <<"/">> ELSE <<"/", Head(segments)>>)
       \o PathOf(Tail(segments))

\* parsedUrl.pathname: the text after the host with its dot segments
\* resolved; "/" when there is none.
Pathname(url) ==
  IF Len(url) = 2 THEN <<"/">>
  ELSE PathOf(ResolveDots(<<>>, Tail(Split(SubSeq(url, 3, Len(url))))))

\* filter(Boolean) keeping the empty strings.
FilterKeepsEmpty(parts) == parts

\* main.ts 404: filter(Boolean) drops the empty strings.
FilterBoolean(parts) == SelectSeq(parts, LAMBDA part : part # "")

\* Array.prototype.join('/').
RECURSIVE Join(_)
Join(parts) ==
  IF parts = <<>> THEN ""
  ELSE IF Len(parts) = 1 THEN parts[1]
  ELSE parts[1] \o "/" \o Join(Tail(parts))

\* Array.prototype.slice(start), start counted from 0.
Slice(parts, start) == SubSeq(parts, start + 1, Len(parts))

\* ------------------------------------------------------------------ state

VARIABLES
  noteTargets,  \* settings.noteTargets: a function from its keys to targets
  githubToken,  \* settings.githubToken
  persisted,    \* the noteTargets of the settings last written by saveData
  vault,        \* the vault: path -> NoFile, Folder or the note's text
  remote,       \* GitHub: remote file -> Absent or its content
  proc,         \* the invocations of SyncAllTargetedNotes / syncNoteWithGitHub
  started,      \* how many invocations have been started
  lastOp,       \* history: the last handler that changed the registry
  saving,       \* the saveData calls that have not settled: what each writes
  memoryHistory,      \* history: the registries settings.noteTargets has been
  isSyncOnLoad,       \* settings.isSyncOnLoad
  checkStatusOnLoad,  \* settings.checkStatusOnLoad
  syncinterval, \* settings.syncinterval
  loaded,       \* onload has run
  timer,        \* the timer onload has set with setIntervalAsync
  unloaded,     \* onunload has run
  modal         \* the NoteTargetModal: its note, its input field, its error

\* The saveData calls in flight, with their history.
saveVars == <<saving, memoryHistory>>

\* What onload reads of the settings, and whether it has run.
loadVars == <<isSyncOnLoad, checkStatusOnLoad, syncinterval, loaded, timer,
              unloaded>>

vars == <<noteTargets, githubToken, persisted, vault, remote, proc, started,
          lastOp, saveVars, loadVars, modal>>

\* The registries over Paths.
Registries == UNION {[K -> Targets] : K \in SUBSET Paths}

\* The orders Object.keys can list the keys of a registry in (insertion
\* order, which the registry as a function does not keep).
KeyOrders(reg) ==
  {s \in UNION {[1 .. n -> DOMAIN reg] : n \in {Cardinality(DOMAIN reg)}} :
     \A i, j \in DOMAIN s : i # j => s[i] # s[j]}

\* An invocation that has not started: the locals of SyncAllTargetedNotes
\* (targetedFiles, the loop position i, successCount, failureCount), the
\* locals of syncNoteWithGitHub (file, target, existingSha, the body sent),
\* and what the invocation has shown and requested so far.
IdleProc ==
  [kind          |-> "none",      \* "batch" | "manual"
   pc            |-> "idle",      \* "loop" | "insync" | "done"
   targetedFiles |-> <<>>,
   i             |-> 1,
   successCount  |-> 0,
   failureCount  |-> 0,
   spc           |-> "none",      \* "reading" | "getting" | "putting" | "ret" | "throw"
   file          |-> "",
   target        |-> Null,
   existingSha   |-> Undefined,
   bodySha       |-> Undefined,
   bodyContent   |-> Absent,
   readText      |-> NoFile,      \* what the pending vault.read reads
   \* observations of the current syncNoteWithGitHub call
   entryAtCall   |-> FALSE,       \* the registry had the note when called
   tokenAtCall   |-> <<>>,        \* githubToken when called
   notice        |-> "none",      \* the Notice it has shown
   gets          |-> 0,           \* GET requests it has issued
   puts          |-> 0,           \* PUT requests it has issued
   readRev       |-> Undefined,   \* the marker its GET answered with
   getAnswer     |-> "none",      \* "found" | "404" | "401" | "500" |
                                  \* "nostatus" | "falsy"
   putAnswer     |-> "none",      \* "accepted" | "stale" | "rejected"
   \* observations of the current batch run
   startKeys     |-> {},          \* the registry's keys when the run started
   visits        |-> [p \in Paths |-> 0],  \* loop iterations per path
   accepted      |-> {},          \* paths whose PUT was accepted
   caught        |-> 0,           \* exceptions the loop has caught
   summary       |-> "none",      \* "shown" | "nofiles"
   escaped       |-> FALSE]       \* an exception left the invocation

\* No NoteTargetModal is open. value is the text of the input field, a
\* sequence of characters; error is what showError has set.
ClosedModal == [open |-> FALSE, file |-> "", value |-> <<>>, error |-> ""]

\* settings.syncinterval is a number: NaN, or so many minutes.
NaN == [nan |-> TRUE, minutes |-> 0]
Minutes(n) == [nan |-> FALSE, minutes |-> n]
IntervalValues == {NaN, Minutes(0), Minutes(1)}

\* No timer is set; and the timer set to an interval, with the invocation
\* its handler is running ("" for none).
NoTimer == [set |-> FALSE, minutes |-> 0, run |-> ""]
TimerEvery(n) == [set |-> TRUE, minutes |-> n, run |-> ""]

\* No registry handler has run yet.
NoOp == [op |-> "none", path |-> "", newPath |-> "", target |-> Null,
         before |-> <<>>]

\* main.ts 119-121: the settings as loadSettings leaves them: the registry
\* is the persisted one, whatever the vault holds now (a note can have gone,
\* or a folder taken its path, while the plugin was not loaded), and no
\* invocation is in flight.
Init ==
  /\ noteTargets \in Registries
  /\ persisted = noteTargets
  /\ githubToken \in TokenValues
  /\ vault \in [Paths -> VaultEntries]
  /\ remote \in [Locs -> {Absent, Other}]
  /\ proc = [p \in Procs |-> IdleProc]
  /\ started = 0
  /\ lastOp = NoOp
  /\ saving = <<>>
  /\ memoryHistory = {}
  /\ isSyncOnLoad = FALSE
  /\ checkStatusOnLoad = TRUE
  /\ syncinterval = Minutes(0)
  /\ loaded = TRUE
  /\ timer = NoTimer
  /\ unloaded = FALSE
  /\ modal = ClosedModal

\* ------------------------------------------------- syncNoteWithGitHub

\* The credential guard without the trim.
HasCredentialUntrimmed(token) == token # <<>>

\* main.ts 183: the credential guard, negated: the token is set and is not
\* all white space.
HasCredential(token) == ~(token = <<>> \/ Len(Trim(token)) = 0)

\* The locals and observations of a syncNoteWithGitHub call, fresh: every
\* call has its own (main.ts 177, 188, 197).
NewCall(r) ==
  [r EXCEPT !.file = "", !.target = Null, !.spc = "none",
            !.existingSha = Undefined, !.bodySha = Undefined,
            !.bodyContent = Absent, !.readText = NoFile,
            !.entryAtCall = FALSE, !.tokenAtCall = <<>>,
            !.notice = "none", !.gets = 0, !.puts = 0,
            !.readRev = Undefined, !.getAnswer = "none",
            !.putAnswer = "none"]

\* main.ts 176-188: the call of syncNoteWithGitHub(file) up to its first
\* await: the two guards, each with its Notice and return, then the start
\* of vault.read(file). r is the caller's invocation record.
SyncCall(r, file) ==
  LET r0 == [NewCall(r) EXCEPT !.file = file,
                               !.entryAtCall = (file \in DOMAIN noteTargets),
                               !.tokenAtCall = githubToken]
  IN  IF file \notin DOMAIN noteTargets
        THEN [r0 EXCEPT !.notice = "noTarget", !.spc = "ret"]
      ELSE IF ~HasCredential(githubToken)
        THEN [r0 EXCEPT !.notice = "noToken", !.spc = "ret"]
      ELSE [r0 EXCEPT !.target = noteTargets[file],
                      !.readText = vault[file],
                      !.spc = "reading"]

\* The write never carrying a marker.
BodyShaOmitted(existingSha) == Undefined

\* main.ts 216-229: the body of the write and the PUT request.
BodySha(existingSha) == existingSha

IssuePut(r) ==
  [r EXCEPT !.bodySha = BodySha(r.existingSha),
            !.puts = r.puts + 1,
            !.spc = "putting"]

\* main.ts 188: vault.read(file) resolves with the note's text; lines
\* 189-204 then encode it and issue the GET.
VaultReadResolves(p) ==
  /\ proc[p].spc = "reading"
  /\ proc[p].readText \in Texts
  /\ proc' = [proc EXCEPT ![p] =
       [@ EXCEPT !.bodyContent = Base64(proc[p].readText),
                 !.gets = @ + 1,
                 !.spc = "getting"]]
  /\ UNCHANGED <<saveVars, loadVars, modal, noteTargets, githubToken, persisted, vault, remote, started, lastOp>>

\* A sync that takes the entry of a note it cannot read out of the
\* registry and saves the settings.
VaultReadRejectsDropsEntry(p) ==
  /\ proc[p].spc = "reading"
  /\ proc' = [proc EXCEPT ![p] = [@ EXCEPT !.spc = "throw"]]
  /\ noteTargets' = [k \in DOMAIN noteTargets \ {proc[p].file} |-> noteTargets[k]]
  /\ persisted' = noteTargets'
  /\ UNCHANGED <<saveVars, loadVars, modal, githubToken, vault, remote, started, lastOp>>

\* main.ts 188: vault.read(file) rejects (the file is gone or unreadable):
\* nothing in syncNoteWithGitHub catches it, the call throws.
VaultReadRejects(p) ==
  /\ proc[p].spc = "reading"
  /\ proc' = [proc EXCEPT ![p] = [@ EXCEPT !.spc = "throw"]]
  /\ UNCHANGED <<saveVars, loadVars, modal, noteTargets, githubToken, persisted, vault, remote, started, lastOp>>

\* What requestUrl can throw for the GET: a response error with its status,
\* an error object without status (network), or a falsy value.
GetErrors == {[defined |-> TRUE,  status |-> 404, label |-> "404"],
              [defined |-> TRUE,  status |-> 401, label |-> "401"],
              [defined |-> TRUE,  status |-> 500, label |-> "500"],
              [defined |-> TRUE,  status |-> 0,   label |-> "nostatus"],
              [defined |-> FALSE, status |-> 0,   label |-> "falsy"]}

\* The catch of the GET giving up on every error, the 404 included.
ReadFailedOnAny(e) == TRUE

\* The catch of the GET taking every error for "absent".
ReadFailedNever(e) == FALSE

\* main.ts 208: the catch of the GET gives up unless the error is a 404.
ReadFailed(e) == ~e.defined \/ e.status # 404

\* main.ts 199-206: the GET answers 200 with the file's sha.
GetFound(p) ==
  /\ proc[p].spc = "getting"
  /\ remote[Loc(proc[p].target)] # Absent
  /\ LET sha == Sha(remote[Loc(proc[p].target)])
     IN  proc' = [proc EXCEPT ![p] =
           IssuePut([@ EXCEPT !.existingSha = sha,
                              !.readRev = sha,
                              !.getAnswer = "found"])]
  /\ UNCHANGED <<saveVars, loadVars, modal, noteTargets, githubToken, persisted, vault, remote, started, lastOp>>

\* main.ts 207-214: the GET throws e. GitHub answers 404 for a file that is
\* not there, and also for a repository or branch the token cannot see;
\* every error can come at any time.
GetThrows(p) ==
  /\ proc[p].spc = "getting"
  /\ \E e \in GetErrors :
       /\ LET r == [proc[p] EXCEPT !.getAnswer = e.label]
          IN  proc' = [proc EXCEPT ![p] =
                IF ReadFailed(e)
                  THEN [r EXCEPT !.notice = "readFailed", !.spc = "ret"]
                  ELSE IssuePut([r EXCEPT !.existingSha = Undefined])]
  /\ UNCHANGED <<saveVars, loadVars, modal, noteTargets, githubToken, persisted, vault, remote, started, lastOp>>

\* The catch of the PUT sending the request again.
AfterPutResends(r, ok) ==
  IF ok THEN [r EXCEPT !.notice = "synced", !.spc = "ret"]
  ELSE [r EXCEPT !.notice = "writeFailed", !.puts = @ + 1, !.spc = "putting"]

\* main.ts 223-234: what follows the answer of the PUT: the success Notice
\* after the await, or the catch with the failure Notice. Neither rethrows.
AfterPut(r, ok) ==
  [r EXCEPT !.notice = IF ok THEN "synced" ELSE "writeFailed",
            !.spc = "ret"]

\* A remote that accepts every write, whatever marker it carries.
PutAcceptedUnchecked(p) ==
  /\ proc[p].spc = "putting"
  /\ remote' = [remote EXCEPT ![Loc(proc[p].target)] = proc[p].bodyContent]
  /\ proc' = [proc EXCEPT ![p] =
       AfterPut([@ EXCEPT !.putAnswer = "accepted",
                          !.accepted = @ \cup {proc[p].file}], TRUE)]
  /\ UNCHANGED <<saveVars, loadVars, modal, noteTargets, githubToken, persisted, vault, started, lastOp>>

\* GitHub accepts a PUT whose sha is the file's current marker (none for a
\* file that is not there) and stores the content whole.
PutAccepted(p) ==
  /\ proc[p].spc = "putting"
  /\ RevOf(remote[Loc(proc[p].target)]) = proc[p].bodySha
  /\ remote' = [remote EXCEPT ![Loc(proc[p].target)] = proc[p].bodyContent]
  /\ proc' = [proc EXCEPT ![p] =
       AfterPut([@ EXCEPT !.putAnswer = "accepted",
                          !.accepted = @ \cup {proc[p].file}], TRUE)]
  /\ UNCHANGED <<saveVars, loadVars, modal, noteTargets, githubToken, persisted, vault, started, lastOp>>

\* GitHub rejects the PUT: its sha is not the file's current marker
\* ("stale"), or for any other reason (auth, network, 5xx).
PutRejected(p) ==
  /\ proc[p].spc = "putting"
  /\ \E why \in {"stale", "rejected"} :
       /\ why = "stale" => RevOf(remote[Loc(proc[p].target)]) # proc[p].bodySha
       /\ proc' = [proc EXCEPT ![p] =
            AfterPut([@ EXCEPT !.putAnswer = why], FALSE)]
  /\ UNCHANGED <<saveVars, loadVars, modal, noteTargets, githubToken, persisted, vault, remote, started, lastOp>>

\* ----------------------------------------------- SyncAllTargetedNotes

\* main.ts 52: file && file instanceof TFile, for what the path resolves to.
ResolvesToFile(entry) == entry # NoFile /\ entry # Folder

\* main.ts 49, 62-64: the loop goes on with the next path; after the last
\* one the summary Notice is shown and the run returns.
NextIteration(r) ==
  IF r.i + 1 > Len(r.targetedFiles)
    THEN [r EXCEPT !.i = r.i + 1, !.pc = "done", !.summary = "shown"]
    ELSE [r EXCEPT !.i = r.i + 1, !.pc = "loop"]

\* The loop going on after a returned sync without counting the note.
AfterSyncReturnedUncounted(r) == NextIteration(r)

\* main.ts 54: syncNoteWithGitHub returned: the note counts as succeeded.
AfterSyncReturned(r) == NextIteration([r EXCEPT !.successCount = @ + 1])

\* An unresolvable path counted with the succeeded notes.
UnresolvableCountsSuccess(r) ==
  NextIteration([r EXCEPT !.successCount = @ + 1])

\* main.ts 55-57: the path resolves to no file: the note counts as failed.
Unresolvable(r) == NextIteration([r EXCEPT !.failureCount = @ + 1])

\* The catch of the loop body throwing on: the run ends without summary.
CatchRethrows(r) == [r EXCEPT !.pc = "done", !.escaped = TRUE]

\* The catch of the loop body ending the loop (a break for the continue).
CatchEndsLoop(r) ==
  [r EXCEPT !.failureCount = @ + 1, !.caught = @ + 1,
            !.pc = "done", !.summary = "shown"]

\* main.ts 58-61: the catch of the loop body: the note counts as failed and
\* the loop goes on.
CatchPerNote(r) ==
  NextIteration([r EXCEPT !.failureCount = @ + 1, !.caught = @ + 1])

\* A slot taking a new invocation only while no other is in flight.
FreeSingleFlight(p) ==
  /\ \A q \in DOMAIN proc : proc[q].pc \in {"idle", "done"}
  /\ started < MaxInvocations * Cardinality(DOMAIN proc)

\* A slot is free for a new invocation when it holds none or one that
\* ended; MaxInvocations are started for each slot.
Free(p) ==
  /\ proc[p].pc \in {"idle", "done"}
  /\ started < MaxInvocations * Cardinality(DOMAIN proc)

\* main.ts 35-47: SyncAllTargetedNotes is called (ribbon, command, startup,
\* timer): it takes Object.keys of the registry and returns at once when
\* there is none.
SyncAllCalled(p) ==
  /\ Free(p)
  /\ \E keys \in KeyOrders(noteTargets) :
       proc' = [proc EXCEPT ![p] =
         IF Len(keys) = 0
           THEN [IdleProc EXCEPT !.kind = "batch", !.pc = "done",
                                 !.summary = "nofiles"]
           ELSE [IdleProc EXCEPT !.kind = "batch", !.pc = "loop",
                                 !.targetedFiles = keys,
                                 !.startKeys = DOMAIN noteTargets]]
  /\ started' = started + 1

\* main.ts 78-89: the ribbon icon or the command calls
\* SyncAllTargetedNotes.
StartBatch(p) ==
  /\ SyncAllCalled(p)
  /\ UNCHANGED <<saveVars, loadVars, modal, noteTargets, githubToken, persisted, vault, remote, lastOp>>

\* The call of syncNoteWithGitHub not awaited: the loop goes on to the
\* next path while the call is in flight, and waits for the last call only.
CallNotAwaited(r) ==
  IF r.i < Len(r.targetedFiles)
    THEN [r EXCEPT !.i = @ + 1, !.pc = "loop"]
    ELSE [r EXCEPT !.pc = "insync"]

\* main.ts 53: await: the loop is suspended until the call has settled.
Await(r) == [r EXCEPT !.pc = "insync"]

\* main.ts 49-57: one iteration up to its await: the path is resolved
\* (getAbstractFileByPath, which the try also covers should it throw) and,
\* for a file, syncNoteWithGitHub is called.
BatchStep(p) ==
  /\ proc[p].kind = "batch" /\ proc[p].pc = "loop"
  /\ LET filePath == proc[p].targetedFiles[proc[p].i]
         r == [NewCall(proc[p]) EXCEPT !.visits[filePath] = @ + 1]
     IN  \E resolveThrows \in BOOLEAN :
           proc' = [proc EXCEPT ![p] =
             IF resolveThrows THEN CatchPerNote(r)
             ELSE IF ResolvesToFile(vault[filePath])
               THEN SyncCall(Await(r), filePath)
               ELSE Unresolvable(r)]
  /\ UNCHANGED <<saveVars, loadVars, modal, noteTargets, githubToken, persisted, vault, remote, started, lastOp>>

\* main.ts 53-61: the awaited syncNoteWithGitHub has returned or thrown.
BatchResume(p) ==
  /\ proc[p].kind = "batch" /\ proc[p].pc = "insync"
  /\ proc[p].spc \in {"ret", "throw"}
  /\ proc' = [proc EXCEPT ![p] =
       IF proc[p].spc = "ret" THEN AfterSyncReturned(@) ELSE CatchPerNote(@)]
  /\ UNCHANGED <<saveVars, loadVars, modal, noteTargets, githubToken, persisted, vault, remote, started, lastOp>>

\* ------------------------------------------------------ manual sync

\* main.ts 141-147: "Sync page to GitHub" of the file menu of a markdown
\* file: syncNoteWithGitHub(file) is called and its promise dropped.
StartManual(p, file) ==
  /\ Free(p)
  /\ ResolvesToFile(vault[file])
  /\ proc' = [proc EXCEPT ![p] =
       SyncCall([IdleProc EXCEPT !.kind = "manual", !.pc = "insync"], file)]
  /\ started' = started + 1
  /\ UNCHANGED <<saveVars, loadVars, modal, noteTargets, githubToken, persisted, vault, remote, lastOp>>

\* main.ts 146: the dropped promise settles; a rejection is handled by
\* nobody.
ManualSettles(r) ==
  [r EXCEPT !.pc = "done", !.escaped = (r.spc = "throw")]

ManualEnd(p) ==
  /\ proc[p].kind = "manual" /\ proc[p].pc = "insync"
  /\ proc[p].spc \in {"ret", "throw"}
  /\ proc' = [proc EXCEPT ![p] = ManualSettles(@)]
  /\ UNCHANGED <<saveVars, loadVars, modal, noteTargets, githubToken, persisted, vault, remote, started, lastOp>>

\* ------------------------------------------------------ the registry

\* reg with the entry of path removed (delete reg[path]).
Without(reg, path) == [k \in DOMAIN reg \ {path} |-> reg[k]]

\* reg with reg[path] = target.
With(reg, path, target) ==
  [k \in DOMAIN reg \cup {path} |-> IF k = path THEN target ELSE reg[k]]

\* setNoteTarget keeping an entry the note already has.
SetNoteTargetKeepsOld(reg, path, target) ==
  IF target # Null
    THEN (IF path \in DOMAIN reg THEN reg ELSE With(reg, path, target))
    ELSE Without(reg, path)

\* main.ts 237-245: setNoteTarget's change of the registry.
SetNoteTargetReg(reg, path, target) ==
  IF target # Null THEN With(reg, path, target) ELSE Without(reg, path)

\* main.ts 237-247: setNoteTarget(file, target) with the save that ends it
\* (123-125), called by the prompt with the note it was opened on:
\* handleSave (389) with a target, "Clear target" (371) with null. It does
\* not look whether the note is still in the vault.
SetNoteTarget(file, target) ==
  /\ noteTargets' = SetNoteTargetReg(noteTargets, file, target)
  /\ persisted' = noteTargets'
  /\ UNCHANGED <<saveVars, loadVars, githubToken, vault, remote, proc, started>>

\* The rename handler suspended between its delete and its assignment.
RenameSuspendedAfterDelete(reg, oldPath, newPath) == Without(reg, oldPath)

\* The rename handler copying the entry to the new path and leaving the old.
RenameKeepsOld(reg, oldPath, newPath) ==
  IF oldPath \in DOMAIN reg THEN With(reg, newPath, reg[oldPath]) ELSE reg

\* main.ts 157-162: the rename handler's change of the registry.
RenameReg(reg, oldPath, newPath) ==
  IF oldPath \in DOMAIN reg
    THEN With(Without(reg, oldPath), newPath, reg[oldPath])
    ELSE reg

\* main.ts 153-163: the vault renames oldPath to newPath and the handler
\* runs; it returns at once for what is no TFile, and saves the settings
\* (123-125) only when it moved an entry. The TFile of the note is the
\* same object with its new path (file.path, 160), also for an open prompt
\* that holds it (340-346).
OnRename(oldPath, newPath) ==
  /\ oldPath # newPath
  /\ vault[oldPath] # NoFile /\ vault[newPath] = NoFile
  /\ vault' = [vault EXCEPT ![oldPath] = NoFile, ![newPath] = vault[oldPath]]
  /\ modal' = IF modal.open /\ modal.file = oldPath
                THEN [modal EXCEPT !.file = newPath]
                ELSE modal
  /\ noteTargets' = IF ResolvesToFile(vault[oldPath])
                      THEN RenameReg(noteTargets, oldPath, newPath)
                      ELSE noteTargets
  /\ persisted' = IF ResolvesToFile(vault[oldPath]) /\ oldPath \in DOMAIN noteTargets
                    THEN noteTargets'
                    ELSE persisted
  /\ UNCHANGED <<saveVars, loadVars, githubToken, remote, proc, started>>

\* The delete handler leaving the entry of the deleted note.
DeleteKeepsEntry(reg, path) == reg

\* main.ts 169-172: the delete handler's change of the registry.
DeleteReg(reg, path) == IF path \in DOMAIN reg THEN Without(reg, path) ELSE reg

\* main.ts 165-173: the vault deletes path and the handler runs; it saves
\* the settings only when it removed an entry.
OnDelete(path) ==
  /\ vault[path] # NoFile
  /\ vault' = [vault EXCEPT ![path] = NoFile]
  /\ noteTargets' = IF ResolvesToFile(vault[path])
                      THEN DeleteReg(noteTargets, path)
                      ELSE noteTargets
  /\ persisted' = IF ResolvesToFile(vault[path]) /\ path \in DOMAIN noteTargets
                    THEN noteTargets'
                    ELSE persisted
  /\ UNCHANGED <<saveVars, loadVars, modal, githubToken, remote, proc, started>>

\* main.ts 304-310: the token field of the settings tab changes: the value
\* is stored trimmed and the settings are saved.
SetToken(value) ==
  /\ githubToken' = Trim(value)
  /\ persisted' = noteTargets
  /\ UNCHANGED <<saveVars, loadVars, modal, noteTargets, vault, remote, proc, started>>

\* ------------------------------------------------- the target prompt

\* The github.com branch taking any kind of page, not only "blob".
GitHubTargetAnyKind(parts) ==
  IF Len(parts) < 5 THEN Null
  ELSE [owner    |-> parts[1],
        repo     |-> parts[2],
        branch   |-> parts[4],
        filePath |-> Join(Slice(parts, 4))]

\* main.ts 406-416: a github.com URL: owner/repo/blob/branch/path...
GitHubTarget(parts) ==
  IF Len(parts) < 5 \/ parts[3] # "blob" THEN Null
  ELSE [owner    |-> parts[1],
        repo     |-> parts[2],
        branch   |-> parts[4],
        filePath |-> Join(Slice(parts, 4))]

\* The raw.githubusercontent.com branch content with three parts.
RawTargetWithoutFile(parts) ==
  IF Len(parts) < 3 THEN Null
  ELSE [owner    |-> parts[1],
        repo     |-> parts[2],
        branch   |-> parts[3],
        filePath |-> Join(Slice(parts, 3))]

\* main.ts 419-428: a raw.githubusercontent.com URL: owner/repo/branch/path...
RawTarget(parts) ==
  IF Len(parts) < 4 THEN Null
  ELSE [owner    |-> parts[1],
        repo     |-> parts[2],
        branch   |-> parts[3],
        filePath |-> Join(Slice(parts, 3))]

\* main.ts 400-432: parseGitHubFileUrl; whatever throws inside the try
\* (new URL, decodeURIComponent) gives null.
ParseGitHubFileUrl(url) ==
  IF UrlThrows(url) THEN Null
  ELSE LET host == ToLowerCase(url[2])
           pieces == FilterBoolean(Split(Pathname(url)))
       IN  IF \E i \in 1 .. Len(pieces) : DecodeThrows(pieces[i]) THEN Null
           ELSE LET parts == [i \in 1 .. Len(pieces) |->
                                DecodeURIComponent(pieces[i])]
                IN  IF host = "github.com" THEN GitHubTarget(parts)
                    ELSE IF host = "raw.githubusercontent.com"
                      THEN RawTarget(parts)
                    ELSE Null

\* What is pasted into the prompt: the two URLs of T1 and T2, one of them
\* with white space around it and one with a host in capitals, and texts
\* that name no file on GitHub.
UrlT1 == BuildUrl("github.com", <<"alice", "notes", "blob", "main", "docs", "page.md">>)
UrlT2 == BuildUrl("raw.githubusercontent.com", <<"bob", "wiki", "dev", "a.md">>)

GoodInputs ==
  {UrlT1, UrlT2, <<" ">> \o UrlT1 \o <<" ">>,
   BuildUrl("GitHub.com", <<"alice", "", "notes", "blob", "main", "a b.md">>)}

BadInputs ==
  {<<>>, <<" ">>, <<"not a url">>,
   BuildUrl("gitlab.com", <<"alice", "notes", "blob", "main", "docs", "page.md">>),
   BuildUrl("github.com", <<"alice", "notes", "tree", "main", "docs">>),
   BuildUrl("github.com", <<"alice", "notes", "blob", "main", "">>),
   BuildUrl("raw.githubusercontent.com", <<"bob", "wiki", "dev">>),
   BuildUrl("github.com", <<"alice", "notes", "blob", "main", "..", "page.md">>),
   BuildUrl("github.com", <<"alice", "notes", "blob", "main", "%zz">>)}

PromptInputs == GoodInputs \cup BadInputs

\* The characters of a stored repoUrl.
Characters(text) == CHOOSE value \in PromptInputs : Text(value) = text

\* main.ts 133-139, 348-358: "Set GitHub sync target" of the file menu of
\* a note opens the prompt; the field shows the repoUrl of the note's
\* target, if it has one.
OpenModal(file) ==
  /\ ~modal.open
  /\ ResolvesToFile(vault[file])
  /\ modal' = [open  |-> TRUE,
               file  |-> file,
               value |-> IF file \in DOMAIN noteTargets
                           THEN Characters(noteTargets[file].repoUrl)
                           ELSE <<>>,
               error |-> ""]
  /\ UNCHANGED <<saveVars, loadVars, noteTargets, githubToken, persisted, vault, remote, proc, started>>

\* The user types or pastes into the field.
SetValue(value) ==
  /\ modal.open
  /\ modal' = [modal EXCEPT !.value = value]
  /\ UNCHANGED <<saveVars, loadVars, noteTargets, githubToken, persisted, vault, remote, proc, started>>

\* main.ts 394-397: showError.
ShowError(message) ==
  /\ modal' = [modal EXCEPT !.error = message]
  /\ UNCHANGED <<saveVars, loadVars, noteTargets, githubToken, persisted, vault, remote, proc, started>>

\* main.ts 365-367, 377-392: "Save target": handleSave(input.value).
HandleSave ==
  /\ modal.open
  /\ IF Len(modal.value) = 0 \/ Len(Trim(modal.value)) = 0
       THEN ShowError("Enter a GitHub file URL.")
     ELSE LET parsed == ParseGitHubFileUrl(Trim(modal.value))
          IN  IF parsed = Null
                THEN ShowError("Invalid GitHub file URL.")
                ELSE /\ SetNoteTarget(modal.file,
                          [repoUrl  |-> Text(Trim(modal.value)),
                           owner    |-> parsed.owner,
                           repo     |-> parsed.repo,
                           branch   |-> parsed.branch,
                           filePath |-> parsed.filePath])
                     /\ modal' = [modal EXCEPT !.open = FALSE]

\* main.ts 369-374: "Clear target".
ClearTarget ==
  /\ modal.open
  /\ SetNoteTarget(modal.file, Null)
  /\ modal' = [modal EXCEPT !.open = FALSE]

\* The prompt is closed without a button.
CloseModal ==
  /\ modal.open
  /\ modal' = [modal EXCEPT !.open = FALSE]
  /\ UNCHANGED <<saveVars, loadVars, noteTargets, githubToken, persisted, vault, remote, proc, started>>

\* ---------------------------------------------------- the environment

\* Another committer changes or deletes a remote file.
RemoteChanged(loc) ==
  /\ \E c \in {Absent, Other} :
       /\ c # remote[loc]
       /\ remote' = [remote EXCEPT ![loc] = c]
  /\ UNCHANGED <<saveVars, loadVars, modal, noteTargets, githubToken, persisted, vault, proc, started, lastOp>>

\* -------------------------------------------------------- specification

\* The plugin with one invocation in flight at a time, in a vault, a
\* registry and a remote that change under it.
Next ==
  \/ \E p \in DOMAIN proc : StartBatch(p)
  \/ \E p \in DOMAIN proc : BatchStep(p)
  \/ \E p \in DOMAIN proc : BatchResume(p)
  \/ \E p \in DOMAIN proc, file \in Paths : StartManual(p, file)
  \/ \E p \in DOMAIN proc : ManualEnd(p)
  \/ \E p \in DOMAIN proc : VaultReadResolves(p)
  \/ \E p \in DOMAIN proc : VaultReadRejects(p)
  \/ \E p \in DOMAIN proc : GetFound(p)
  \/ \E p \in DOMAIN proc : GetThrows(p)
  \/ \E p \in DOMAIN proc : PutAccepted(p)
  \/ \E p \in DOMAIN proc : PutRejected(p)
  \/ \E file \in Paths, target \in Targets \cup {Null} :
       /\ ResolvesToFile(vault[file])
       /\ SetNoteTarget(file, target)
       /\ UNCHANGED <<lastOp, modal>>
  \/ \E oldPath \in Paths, newPath \in Paths :
       OnRename(oldPath, newPath) /\ UNCHANGED lastOp
  \/ \E path \in Paths : OnDelete(path) /\ UNCHANGED lastOp
  \/ \E value \in TokenInputs : SetToken(value) /\ UNCHANGED lastOp
  \/ \E loc \in Locs : RemoteChanged(loc)

Spec == Init /\ [][Next]_vars

\* ------------------------------------------- the registry on its own

\* The registry handlers with their history: what the handler was called
\* with and the registry it found.
InitRegistry ==
  /\ noteTargets \in Registries
  /\ persisted = noteTargets
  /\ githubToken \in TokenValues
  /\ vault \in [Paths -> VaultEntries]
  /\ remote = [l \in Locs |-> Absent]
  /\ proc = [p \in Procs |-> IdleProc]
  /\ started = 0
  /\ lastOp = NoOp
  /\ saving = <<>>
  /\ memoryHistory = {}
  /\ isSyncOnLoad = FALSE
  /\ checkStatusOnLoad = TRUE
  /\ syncinterval = Minutes(0)
  /\ loaded = TRUE
  /\ timer = NoTimer
  /\ unloaded = FALSE
  /\ modal = ClosedModal

NextRegistry ==
  \/ \E file \in Paths, target \in Targets \cup {Null} :
       /\ ResolvesToFile(vault[file])
       /\ SetNoteTarget(file, target)
       /\ lastOp' = [op |-> "set", path |-> file, newPath |-> "",
                     target |-> target, before |-> noteTargets]
       /\ UNCHANGED modal
  \/ \E oldPath \in Paths, newPath \in Paths :
       /\ OnRename(oldPath, newPath)
       /\ lastOp' = [op |-> "rename", path |-> oldPath, newPath |-> newPath,
                     target |-> Null, before |-> noteTargets]
  \/ \E path \in Paths :
       /\ OnDelete(path)
       /\ lastOp' = [op |-> "delete", path |-> path, newPath |-> "",
                     target |-> Null, before |-> noteTargets]
  \/ \E value \in TokenInputs :
       /\ SetToken(value)
       /\ lastOp' = [op |-> "token", path |-> "", newPath |-> "",
                     target |-> Null, before |-> noteTargets]

SpecRegistry == InitRegistry /\ [][NextRegistry]_vars

\* ------------------------------------------ the save as its own step

\* How many saveData calls are in flight at most.
MaxSaving == 2

\* main.ts 123-125: saveSettings calls saveData(this.settings): the
\* settings are serialized as they are now and the write is started; the
\* handler is suspended until it settles.
SaveSettings(reg) == Append(saving, reg)

\* seq without its i-th element.
RemoveAt(seq, i) == [j \in 1 .. Len(seq) - 1 |-> IF j < i THEN seq[j] ELSE seq[j + 1]]

\* main.ts 237-246: setNoteTarget up to its await: the change of the
\* registry and the call of saveSettings.
SetNoteTargetCall(file, target) ==
  /\ ResolvesToFile(vault[file])
  /\ Len(saving) < MaxSaving
  /\ noteTargets' = SetNoteTargetReg(noteTargets, file, target)
  /\ saving' = SaveSettings(noteTargets')
  /\ memoryHistory' = memoryHistory \cup {noteTargets'}
  /\ lastOp' = [NoOp EXCEPT !.op = "set"]
  /\ UNCHANGED <<loadVars, modal, githubToken, persisted, vault, remote, proc, started>>

\* main.ts 153-162: the rename handler up to its await, which it reaches
\* only when it moved an entry.
OnRenameCall(oldPath, newPath) ==
  /\ oldPath # newPath
  /\ vault[oldPath] # NoFile /\ vault[newPath] = NoFile
  /\ Len(saving) < MaxSaving
  /\ vault' = [vault EXCEPT ![oldPath] = NoFile, ![newPath] = vault[oldPath]]
  /\ noteTargets' = IF ResolvesToFile(vault[oldPath])
                      THEN RenameReg(noteTargets, oldPath, newPath)
                      ELSE noteTargets
  /\ saving' = IF ResolvesToFile(vault[oldPath]) /\ oldPath \in DOMAIN noteTargets
                 THEN SaveSettings(noteTargets')
                 ELSE saving
  /\ memoryHistory' = memoryHistory \cup {noteTargets'}
  /\ lastOp' = [NoOp EXCEPT !.op = "rename"]
  /\ UNCHANGED <<loadVars, modal, githubToken, persisted, remote, proc, started>>

\* main.ts 165-172: the delete handler up to its await, which it reaches
\* only when it removed an entry.
OnDeleteCall(path) ==
  /\ vault[path] # NoFile
  /\ Len(saving) < MaxSaving
  /\ vault' = [vault EXCEPT ![path] = NoFile]
  /\ noteTargets' = IF ResolvesToFile(vault[path])
                      THEN DeleteReg(noteTargets, path)
                      ELSE noteTargets
  /\ saving' = IF ResolvesToFile(vault[path]) /\ path \in DOMAIN noteTargets
                 THEN SaveSettings(noteTargets')
                 ELSE saving
  /\ memoryHistory' = memoryHistory \cup {noteTargets'}
  /\ lastOp' = [NoOp EXCEPT !.op = "delete"]
  /\ UNCHANGED <<loadVars, modal, githubToken, persisted, remote, proc, started>>

\* main.ts 124, 162, 171, 245: a saveData call settles: the data file now
\* holds what that call serialized, whole, and the handler that awaited it
\* goes on to its end. Nothing in the plugin orders the writes of calls
\* that overlap: any of them can settle first.
SaveDataSettles(i) ==
  /\ i \in 1 .. Len(saving)
  /\ persisted' = saving[i]
  /\ saving' = RemoveAt(saving, i)
  /\ lastOp' = [NoOp EXCEPT !.op = "returned"]
  /\ UNCHANGED <<loadVars, modal, memoryHistory, noteTargets, githubToken, vault, remote, proc, started>>

\* The process ends with writes in flight, which are lost, and the plugin
\* is loaded again: loadSettings (main.ts 119-121) reads the data file.
CrashAndReload ==
  /\ Len(saving) > 0
  /\ saving' = <<>>
  /\ noteTargets' = persisted
  /\ lastOp' = [NoOp EXCEPT !.op = "reload"]
  /\ UNCHANGED <<loadVars, modal, memoryHistory, githubToken, persisted, vault, remote, proc, started>>

\* The settings loaded, every note of the vault in place, nothing in
\* flight.
InitSave ==
  /\ noteTargets \in Registries
  /\ persisted = noteTargets
  /\ githubToken = <<"t">>
  /\ vault \in [Paths -> Texts \cup {NoFile}]
  /\ remote = [l \in Locs |-> Absent]
  /\ proc = [p \in Procs |-> IdleProc]
  /\ started = 0
  /\ lastOp = NoOp
  /\ saving = <<>>
  /\ memoryHistory = {noteTargets}
  /\ isSyncOnLoad = FALSE
  /\ checkStatusOnLoad = TRUE
  /\ syncinterval = Minutes(0)
  /\ loaded = TRUE
  /\ timer = NoTimer
  /\ unloaded = FALSE
  /\ modal = ClosedModal

NextSave ==
  \/ \E file \in Paths, target \in Targets \cup {Null} :
       SetNoteTargetCall(file, target)
  \/ \E oldPath \in Paths, newPath \in Paths : OnRenameCall(oldPath, newPath)
  \/ \E path \in Paths : OnDeleteCall(path)
  \/ \E i \in 1 .. Len(saving) : SaveDataSettles(i)
  \/ CrashAndReload

\* The registry handlers with their saves in flight.
SpecSave == InitSave /\ [][NextSave]_vars

\* ------------------------------------------------ the prompt at work

\* The plugin in use from an empty registry: targets come in through the
\* prompt, and go or move with the notes. lastOp is here the last thing
\* that was done, with the registry it found where the registry can change.
InitPrompt ==
  /\ noteTargets = <<>>
  /\ persisted = noteTargets
  /\ githubToken = <<"t">>
  /\ vault \in [Paths -> Texts \cup {NoFile}]
  /\ remote = [l \in Locs |-> Absent]
  /\ proc = [p \in Procs |-> IdleProc]
  /\ started = 0
  /\ lastOp = NoOp
  /\ saving = <<>>
  /\ memoryHistory = {}
  /\ isSyncOnLoad = FALSE
  /\ checkStatusOnLoad = TRUE
  /\ syncinterval = Minutes(0)
  /\ loaded = TRUE
  /\ timer = NoTimer
  /\ unloaded = FALSE
  /\ modal = ClosedModal

NextPrompt ==
  \/ \E file \in Paths :
       OpenModal(file) /\ lastOp' = [NoOp EXCEPT !.op = "open"]
  \/ \E value \in PromptInputs :
       SetValue(value) /\ lastOp' = [NoOp EXCEPT !.op = "type"]
  \/ /\ HandleSave
     /\ lastOp' = [op |-> "save", path |-> modal.file, newPath |-> "",
                   target |-> Null, before |-> noteTargets]
  \/ /\ ClearTarget
     /\ lastOp' = [op |-> "clear", path |-> modal.file, newPath |-> "",
                   target |-> Null, before |-> noteTargets]
  \/ CloseModal /\ lastOp' = [NoOp EXCEPT !.op = "close"]
  \/ \E oldPath \in Paths, newPath \in Paths :
       /\ OnRename(oldPath, newPath)
       /\ lastOp' = [op |-> "rename", path |-> oldPath, newPath |-> newPath,
                     target |-> Null, before |-> noteTargets]
  \/ \E path \in Paths :
       /\ OnDelete(path)
       /\ lastOp' = [op |-> "delete", path |-> path, newPath |-> "",
                     target |-> Null, before |-> noteTargets]

SpecPrompt == InitPrompt /\ [][NextPrompt]_vars

\* ------------------------------------------------- the parser at work

\* How many path segments a URL is built from at most.
MaxSegments == 6

\* The segments URLs are built from: names, "blob", a name that needs an
\* escape, and the empty segment; and their hosts.
SegmentValues == {"alice", "blob", "a b.md", ""}
BuiltHosts == {"github.com", "raw.githubusercontent.com", "gitlab.com"}

SegmentLists == UNION {[1 .. n -> SegmentValues] : n \in 0 .. MaxSegments}

\* The prompt of note A.md holds a URL built from a host and a list of
\* segments, and "Save target" is about to be pressed; lastOp keeps what
\* the URL was built from.
InitParse ==
  /\ noteTargets = <<>>
  /\ persisted = noteTargets
  /\ githubToken = <<"t">>
  /\ vault = [path \in Paths |-> IF path = "A.md" THEN "text" ELSE NoFile]
  /\ remote = [l \in Locs |-> Absent]
  /\ proc = [p \in Procs |-> IdleProc]
  /\ started = 0
  /\ saving = <<>>
  /\ memoryHistory = {}
  /\ isSyncOnLoad = FALSE
  /\ checkStatusOnLoad = TRUE
  /\ syncinterval = Minutes(0)
  /\ loaded = TRUE
  /\ timer = NoTimer
  /\ unloaded = FALSE
  /\ \E host \in BuiltHosts, segments \in SegmentLists :
       /\ modal = [open  |-> TRUE,
                   file  |-> "A.md",
                   value |-> BuildUrl(host, segments),
                   error |-> ""]
       /\ lastOp = [op |-> "built", host |-> host, segments |-> segments]

NextParse == HandleSave /\ lastOp' = [lastOp EXCEPT !.op = "save"]

SpecParse == InitParse /\ [][NextParse]_vars

\* --------------------------------------------- loading and triggers

\* Two invocations can be in flight.
TwoProcs == {"p1", "p2"}

\* The timer set for every interval that is a number, 0 included.
TimerOfAnyNumber(interval) ==
  IF ~interval.nan THEN TimerEvery(interval.minutes) ELSE NoTimer

\* main.ts 94-104: the timer onload sets: none unless syncinterval is a
\* number of at least 1.
TimerOf(interval) ==
  IF ~interval.nan /\ interval.minutes >= 1
    THEN TimerEvery(interval.minutes)
    ELSE NoTimer

\* main.ts 75-113: onload after loadSettings: the ribbon icon, the command
\* and the settings tab are added, the timer is set, and, under
\* checkStatusOnLoad, CheckStatusOnStart (67-73) is called, which calls
\* SyncAllTargetedNotes under isSyncOnLoad; then the menu and the vault
\* handlers are registered.
OnLoad ==
  /\ ~loaded
  /\ loaded' = TRUE
  /\ timer' = TimerOf(syncinterval)
  /\ IF checkStatusOnLoad /\ isSyncOnLoad
       THEN \E p \in DOMAIN proc : SyncAllCalled(p)
       ELSE UNCHANGED <<proc, started>>
  /\ UNCHANGED <<saveVars, modal, isSyncOnLoad, checkStatusOnLoad, syncinterval,
                 unloaded, noteTargets, githubToken, persisted, vault, remote,
                 lastOp>>

\* main.ts 98-100: the interval has passed and the timer's handler calls
\* SyncAllTargetedNotes; setIntervalAsync does not call the handler again
\* before the run it awaits has ended.
TimerFires(p) ==
  /\ loaded /\ timer.set
  /\ IF timer.run = "" THEN TRUE ELSE proc[timer.run].pc = "done"
  /\ SyncAllCalled(p)
  /\ timer' = [timer EXCEPT !.run = p]
  /\ UNCHANGED <<saveVars, modal, isSyncOnLoad, checkStatusOnLoad, syncinterval,
                 loaded, unloaded, noteTargets, githubToken, persisted, vault,
                 remote, lastOp>>

\* main.ts 115-117: onunload, whose body is empty: the plugin is disabled.
\* Obsidian takes away what the plugin has added through it (the ribbon
\* icon, the command, the settings tab, the registered events); the timer
\* of setIntervalAsync (99-101) was handed to nobody and is left as it is,
\* and so are the runs in flight.
OnUnload ==
  /\ loaded /\ ~unloaded
  /\ unloaded' = TRUE
  /\ UNCHANGED <<saveVars, modal, isSyncOnLoad, checkStatusOnLoad, syncinterval,
                 loaded, timer, noteTargets, githubToken, persisted, vault,
                 remote, proc, started, lastOp>>

\* The plugin about to be loaded with the settings of the data file: the
\* two flags, the interval, and a registry of no note or one.
InitLoad ==
  /\ noteTargets \in {<<>>, [path \in {"A.md"} |-> T1]}
  /\ persisted = noteTargets
  /\ githubToken = <<"t">>
  /\ vault = [path \in Paths |-> "text"]
  /\ remote \in [Locs -> {Absent}]
  /\ proc = [p \in TwoProcs |-> IdleProc]
  /\ started = 0
  /\ lastOp = NoOp
  /\ saving = <<>>
  /\ memoryHistory = {}
  /\ isSyncOnLoad \in BOOLEAN
  /\ checkStatusOnLoad \in BOOLEAN
  /\ syncinterval \in IntervalValues
  /\ loaded = FALSE
  /\ timer = NoTimer
  /\ unloaded = FALSE
  /\ modal = ClosedModal

NextLoad ==
  \/ OnLoad
  \/ \E p \in DOMAIN proc : TimerFires(p)
  \/ \E p \in DOMAIN proc : loaded /\ ~unloaded /\ StartBatch(p)
  \/ OnUnload
  \/ \E p \in DOMAIN proc : BatchStep(p)
  \/ \E p \in DOMAIN proc : BatchResume(p)
  \/ \E p \in DOMAIN proc : VaultReadResolves(p)
  \/ \E p \in DOMAIN proc : VaultReadRejects(p)
  \/ \E p \in DOMAIN proc : GetFound(p)
  \/ \E p \in DOMAIN proc : GetThrows(p)
  \/ \E p \in DOMAIN proc : PutAccepted(p)
  \/ \E p \in DOMAIN proc : PutRejected(p)

\* The plugin from its load on, with the triggers of the batch run.
SpecLoad == InitLoad /\ [][NextLoad]_vars

\* ------------------------------------------- the interval and the timer

\* What the interval field of the settings tab can hold.
IntervalInputs == {"", "0", "1", "abc"}

\* main.ts 328: Number(value) for the text of the field: 0 for the empty
\* text, NaN for a text that is no number.
NumberOf(text) ==
  IF text \in {"", "0"} THEN Minutes(0)
  ELSE IF text = "1" THEN Minutes(1)
  ELSE NaN

\* main.ts 325-330: the interval field changes: the number of its text is
\* stored and the settings are saved. The timer is not touched.
SetInterval(text) ==
  /\ loaded /\ ~unloaded
  /\ syncinterval' = NumberOf(text)
  /\ syncinterval' # syncinterval
  /\ persisted' = noteTargets
  /\ UNCHANGED <<saveVars, modal, isSyncOnLoad, checkStatusOnLoad, loaded, timer,
                 unloaded, noteTargets, githubToken, vault, remote, proc,
                 started, lastOp>>

\* main.ts 124, 120: the interval as the data file gives it back: saveData
\* writes JSON, which has null for NaN, and for null isNaN is false and
\* null >= 1 is false, as for 0.
FromDataFile(interval) == IF interval.nan THEN Minutes(0) ELSE interval

\* Obsidian is closed and started again: the process ends, with its timer
\* and the runs in flight, and loadSettings (main.ts 119-121) reads the
\* data file; onload is about to run.
Restart ==
  /\ loaded
  /\ loaded' = FALSE
  /\ unloaded' = FALSE
  /\ timer' = NoTimer
  /\ proc' = [p \in DOMAIN proc |-> IdleProc]
  /\ syncinterval' = FromDataFile(syncinterval)
  /\ noteTargets' = persisted
  /\ UNCHANGED <<saveVars, modal, isSyncOnLoad, checkStatusOnLoad, githubToken,
                 persisted, vault, remote, started, lastOp>>

\* The plugin about to be loaded with a registry of one note, the startup
\* sync off and any interval: every batch run is the timer's.
InitInterval ==
  /\ noteTargets = [path \in {"A.md"} |-> T1]
  /\ persisted = noteTargets
  /\ githubToken = <<"t">>
  /\ vault = [path \in Paths |-> "text"]
  /\ remote = [l \in Locs |-> Absent]
  /\ proc = [p \in TwoProcs |-> IdleProc]
  /\ started = 0
  /\ lastOp = NoOp
  /\ saving = <<>>
  /\ memoryHistory = {}
  /\ isSyncOnLoad = FALSE
  /\ checkStatusOnLoad = TRUE
  /\ syncinterval \in IntervalValues
  /\ loaded = FALSE
  /\ timer = NoTimer
  /\ unloaded = FALSE
  /\ modal = ClosedModal

NextInterval ==
  \/ OnLoad
  \/ \E p \in DOMAIN proc : TimerFires(p)
  \/ \E text \in IntervalInputs : SetInterval(text)
  \/ Restart
  \/ \E p \in DOMAIN proc : BatchStep(p)
  \/ \E p \in DOMAIN proc : BatchResume(p)
  \/ \E p \in DOMAIN proc : VaultReadResolves(p)
  \/ \E p \in DOMAIN proc : VaultReadRejects(p)
  \/ \E p \in DOMAIN proc : GetFound(p)
  \/ \E p \in DOMAIN proc : GetThrows(p)
  \/ \E p \in DOMAIN proc : PutAccepted(p)
  \/ \E p \in DOMAIN proc : PutRejected(p)

\* The plugin over several loads, with the interval changed in between.
SpecInterval == InitInterval /\ [][NextInterval]_vars

\* ------------------------------------------- two runs on one remote file

\* A note with the target T1, whose remote file is absent, holds the note
\* already or holds something else, and two invocations that can be in
\* flight together: batch runs or manual syncs, with the note renamed
\* under them.
InitConc ==
  /\ noteTargets = [path \in {"A.md"} |-> T1]
  /\ persisted = noteTargets
  /\ githubToken = <<"t">>
  /\ vault = [path \in Paths |-> IF path = "A.md" THEN "text" ELSE NoFile]
  /\ remote \in {[l \in Locs |-> IF l = Loc(T1) THEN c ELSE Absent] :
                   c \in {Absent, Other, Base64("text")}}
  /\ proc = [p \in TwoProcs |-> IdleProc]
  /\ started = 0
  /\ lastOp = NoOp
  /\ saving = <<>>
  /\ memoryHistory = {}
  /\ isSyncOnLoad = FALSE
  /\ checkStatusOnLoad = TRUE
  /\ syncinterval = Minutes(0)
  /\ loaded = TRUE
  /\ timer = NoTimer
  /\ unloaded = FALSE
  /\ modal = ClosedModal

NextConc ==
  \/ \E p \in DOMAIN proc : StartBatch(p)
  \/ \E p \in DOMAIN proc : BatchStep(p)
  \/ \E p \in DOMAIN proc : BatchResume(p)
  \/ \E p \in DOMAIN proc, file \in Paths : StartManual(p, file)
  \/ \E p \in DOMAIN proc : ManualEnd(p)
  \/ \E p \in DOMAIN proc : VaultReadResolves(p)
  \/ \E p \in DOMAIN proc : VaultReadRejects(p)
  \/ \E p \in DOMAIN proc : GetFound(p)
  \/ \E p \in DOMAIN proc : GetThrows(p)
  \/ \E p \in DOMAIN proc : PutAccepted(p)
  \/ \E p \in DOMAIN proc : PutRejected(p)
  \/ \E oldPath \in Paths, newPath \in Paths :
       OnRename(oldPath, newPath) /\ UNCHANGED lastOp

SpecConc == InitConc /\ [][NextConc]_vars

\* ------------------------------------------- a batch run to its end

\* A registry over the notes of the vault, and one invocation at a time,
\* with the registry and the vault changing while it runs.
InitLive ==
  /\ noteTargets \in Registries
  /\ persisted = noteTargets
  /\ githubToken = <<"t">>
  /\ vault \in [Paths -> Texts \cup {NoFile}]
  /\ remote = [l \in Locs |-> Absent]
  /\ proc = [p \in Procs |-> IdleProc]
  /\ started = 0
  /\ lastOp = NoOp
  /\ saving = <<>>
  /\ memoryHistory = {}
  /\ isSyncOnLoad = FALSE
  /\ checkStatusOnLoad = TRUE
  /\ syncinterval = Minutes(0)
  /\ loaded = TRUE
  /\ timer = NoTimer
  /\ unloaded = FALSE
  /\ modal = ClosedModal

NextLive ==
  \/ \E p \in DOMAIN proc : StartBatch(p)
  \/ \E p \in DOMAIN proc : BatchStep(p)
  \/ \E p \in DOMAIN proc : BatchResume(p)
  \/ \E p \in DOMAIN proc : VaultReadResolves(p)
  \/ \E p \in DOMAIN proc : VaultReadRejects(p)
  \/ \E p \in DOMAIN proc : GetFound(p)
  \/ \E p \in DOMAIN proc : GetThrows(p)
  \/ \E p \in DOMAIN proc : PutAccepted(p)
  \/ \E p \in DOMAIN proc : PutRejected(p)
  \/ \E file \in Paths, target \in Targets \cup {Null} :
       /\ ResolvesToFile(vault[file])
       /\ SetNoteTarget(file, target)
       /\ UNCHANGED <<lastOp, modal>>
  \/ \E oldPath \in Paths, newPath \in Paths :
       OnRename(oldPath, newPath) /\ UNCHANGED lastOp
  \/ \E path \in Paths : OnDelete(path) /\ UNCHANGED lastOp

\* The event loop runs every continuation that is ready (main.ts 49-62:
\* the loop's next iteration, the return of an awaited call), and every
\* vault read and every request is answered or fails in the end.
FairLive ==
  \A p \in Procs :
    /\ WF_vars(BatchStep(p))
    /\ WF_vars(BatchResume(p))
    /\ WF_vars(VaultReadResolves(p) \/ VaultReadRejects(p))
    /\ WF_vars(GetFound(p) \/ GetThrows(p))
    /\ WF_vars(PutAccepted(p) \/ PutRejected(p))

SpecLive == InitLive /\ [][NextLive]_vars /\ FairLive

\* ---------------------------------------------------------------- claims

\* The batch runs among the invocations.
BatchRuns == {p \in DOMAIN proc : proc[p].kind = "batch"}

\* The manual syncs among the invocations.
ManualSyncs == {p \in DOMAIN proc : proc[p].kind = "manual"}

\* C1: when a batch run shows its summary, the succeeded count is the number
\* of notes whose remote write was accepted during the run, and the failed
\* count is the number of all the other notes of the run.
C1_SummaryCountsOutcomes ==
  \A p \in BatchRuns :
    proc[p].summary = "shown" =>
      /\ proc[p].successCount = Cardinality(proc[p].accepted)
      /\ proc[p].failureCount =
           Len(proc[p].targetedFiles) - Cardinality(proc[p].accepted)

\* C2: a batch run processes each path that was a key of the registry when
\* it started exactly once and no other path: never twice while it runs,
\* each once when it has ended, whatever failed or was thrown on the way.
C2_EachNoteProcessedOnce ==
  \A p \in BatchRuns :
    /\ \A path \in Paths :
         /\ proc[p].visits[path] <= 1
         /\ path \notin proc[p].startKeys => proc[p].visits[path] = 0
    /\ proc[p].pc = "done" =>
         \A path \in proc[p].startKeys : proc[p].visits[path] = 1

\* C2's case: a run over two notes has ended; the first note's sync threw
\* and the second note was synced after it.
C2_Witness ==
  \E p \in BatchRuns :
    /\ proc[p].pc = "done"
    /\ Cardinality(proc[p].startKeys) = 2
    /\ proc[p].caught = 1
    /\ proc[p].putAnswer = "accepted"

\* C3: a write that follows a read which found the file carries the marker
\* that read answered with; and when GitHub rejects the write because the
\* marker is no longer the file's, the call shows the failure Notice and
\* the remote files are what they were.
C3_WriteCarriesReadMarker ==
  /\ [](\A p \in DOMAIN proc :
          (proc[p].puts > 0 /\ proc[p].getAnswer = "found") =>
            /\ proc[p].readRev # Undefined
            /\ proc[p].bodySha = proc[p].readRev)
  /\ [][\A p \in DOMAIN proc :
          (proc[p].spc = "putting" /\ proc'[p].putAnswer = "stale") =>
            /\ proc'[p].notice = "writeFailed"
            /\ remote' = remote]_vars

\* C3's case: the read found the file, the file changed, and the write
\* with the marker of the read was rejected as stale.
C3_Witness ==
  \E p \in DOMAIN proc :
    /\ proc[p].getAnswer = "found"
    /\ proc[p].putAnswer = "stale"
    /\ proc[p].bodySha # RevOf(remote[Loc(proc[p].target)])

\* C4: after a read that answered 404 the call has shown no read failure
\* and has issued one write, without marker; once that write is accepted
\* the call shows the success Notice.
C4_AbsentIsNoError ==
  \A p \in DOMAIN proc :
    proc[p].getAnswer = "404" =>
      /\ proc[p].notice # "readFailed"
      /\ proc[p].puts = 1
      /\ proc[p].bodySha = Undefined
      /\ proc[p].putAnswer = "accepted" => proc[p].notice = "synced"

\* C4's case: the read answered 404 and the write that followed was
\* accepted: the file now holds the note.
C4_Witness ==
  \E p \in DOMAIN proc :
    /\ proc[p].getAnswer = "404"
    /\ proc[p].putAnswer = "accepted"
    /\ remote[Loc(proc[p].target)] = proc[p].bodyContent

\* The answers of a read that failed for another reason than 404.
ReadErrors == {"401", "500", "nostatus", "falsy"}

\* C5: after a read that failed for another reason than 404 the call has
\* returned with the read-failure Notice and has issued no write.
C5_ReadFailureStopsSync ==
  \A p \in DOMAIN proc :
    proc[p].getAnswer \in ReadErrors =>
      /\ proc[p].notice = "readFailed"
      /\ proc[p].spc = "ret"
      /\ proc[p].puts = 0
      /\ proc[p].putAnswer = "none"

\* C5's case: a manual sync whose read threw an error without a status has
\* ended.
C5_Witness ==
  \E p \in ManualSyncs :
    /\ proc[p].pc = "done"
    /\ proc[p].getAnswer = "nostatus"

\* C6: a call of syncNoteWithGitHub issues a request only if, when it was
\* called, the registry had an entry for the note and the token was not
\* empty after trimming; a call without entry shows the no-target Notice,
\* a call with entry and without token the missing-token Notice.
C6_NoRequestWithoutTargetAndToken ==
  \A p \in DOMAIN proc :
    proc[p].file # "" =>
      /\ (proc[p].gets > 0 \/ proc[p].puts > 0
            \/ proc[p].spc \in {"getting", "putting"}) =>
           (proc[p].entryAtCall /\ Len(Trim(proc[p].tokenAtCall)) > 0)
      /\ ~proc[p].entryAtCall => proc[p].notice = "noTarget"
      /\ (proc[p].entryAtCall /\ Len(Trim(proc[p].tokenAtCall)) = 0) =>
           proc[p].notice = "noToken"

\* C6's case: a call for a note with an entry, under a token of white space
\* only, has returned.
C6_Witness ==
  \E p \in DOMAIN proc :
    /\ proc[p].spc = "ret"
    /\ proc[p].entryAtCall
    /\ proc[p].tokenAtCall = <<" ">>
    /\ proc[p].gets = 0

\* C7: the iteration of a batch run over a path that resolves to no note
\* adds one to the failed count, leaves the succeeded count, and calls no
\* sync: no request is issued; and so does a note whose content cannot be
\* read.
C7_UnresolvableCountsFailure ==
  [][\A p \in DOMAIN proc :
       /\ (/\ proc[p].kind = "batch" /\ proc[p].pc = "loop"
           /\ proc'[p] # proc[p]
           /\ vault[proc[p].targetedFiles[proc[p].i]] \notin Texts) =>
            /\ proc'[p].failureCount = proc[p].failureCount + 1
            /\ proc'[p].successCount = proc[p].successCount
            /\ proc'[p].spc = "none"
            /\ proc'[p].gets = 0 /\ proc'[p].puts = 0
       /\ (/\ proc[p].kind = "batch" /\ proc[p].pc = "insync"
           /\ proc[p].spc = "throw"
           /\ proc'[p] # proc[p]) =>
            /\ proc'[p].failureCount = proc[p].failureCount + 1
            /\ proc'[p].successCount = proc[p].successCount
            /\ proc[p].gets = 0 /\ proc[p].puts = 0]_vars

\* C7's case: a run over one entry has ended with one failure and nothing
\* caught: the entry's path resolved to no note.
C7_Witness ==
  \E p \in BatchRuns :
    /\ proc[p].pc = "done"
    /\ Len(proc[p].targetedFiles) = 1
    /\ proc[p].failureCount = 1
    /\ proc[p].caught = 0
    /\ vault[proc[p].targetedFiles[1]] = NoFile

\* C8: no exception leaves a batch run: a run that has not ended can take
\* its next step whatever was thrown, and a run that has ended has shown
\* its summary, with every note of the run counted (or, over an empty
\* registry, the nothing-to-sync Notice).
C8_NoExceptionEscapesBatch ==
  \A p \in BatchRuns :
    /\ ~proc[p].escaped
    /\ proc[p].pc = "loop" => ENABLED BatchStep(p)
    /\ proc[p].pc = "insync" =>
         ENABLED (\/ VaultReadRejects(p) \/ GetThrows(p) \/ PutRejected(p)
                  \/ BatchResume(p))
    /\ proc[p].pc = "done" =>
         \/ proc[p].startKeys = {} /\ proc[p].summary = "nofiles"
         \/ /\ proc[p].summary = "shown"
            /\ proc[p].successCount + proc[p].failureCount
                 = Len(proc[p].targetedFiles)

\* C8's case: a run has caught an exception for each of its two notes and
\* has ended with its summary.
C8_Witness ==
  \E p \in BatchRuns :
    /\ proc[p].pc = "done"
    /\ proc[p].caught = 2
    /\ proc[p].summary = "shown"

\* The Notices that report a failed sync.
ErrorNotices == {"noTarget", "noToken", "readFailed", "writeFailed"}

\* C9: a manual sync that has ended without an accepted write has shown an
\* error Notice.
C9_ManualFailureIsNotified ==
  \A p \in ManualSyncs :
    (proc[p].pc = "done" /\ proc[p].putAnswer # "accepted") =>
      proc[p].notice \in ErrorNotices

\* C10: after setNoteTarget(file, target) with a target, the registry maps
\* file to that target, whole, and has for every other path the entry it
\* had before, or none as before.
C10_SetTargetReplacesEntry ==
  (lastOp.op = "set" /\ lastOp.target # Null) =>
    /\ lastOp.path \in DOMAIN noteTargets
    /\ noteTargets[lastOp.path] = lastOp.target
    /\ \A n \in Paths \ {lastOp.path} :
         /\ n \in DOMAIN noteTargets <=> n \in DOMAIN lastOp.before
         /\ n \in DOMAIN lastOp.before => noteTargets[n] = lastOp.before[n]

\* C10's case: setNoteTarget has replaced the entry of a note, T1, by T2,
\* in a registry with another entry.
C10_Witness ==
  /\ lastOp.op = "set" /\ lastOp.target = T2
  /\ lastOp.path \in DOMAIN lastOp.before
  /\ lastOp.before[lastOp.path] = T1
  /\ DOMAIN lastOp.before = Paths

\* C11: after the rename of a note from a to b, a registry that had an
\* entry at a has none at a and has at b the value that was at a; a
\* registry that had no entry at a is what it was, an entry at b included.
C11_RenameMovesEntry ==
  (lastOp.op = "rename" /\ ResolvesToFile(vault[lastOp.newPath])) =>
    IF lastOp.path \in DOMAIN lastOp.before
      THEN /\ lastOp.path \notin DOMAIN noteTargets
           /\ lastOp.newPath \in DOMAIN noteTargets
           /\ noteTargets[lastOp.newPath] = lastOp.before[lastOp.path]
      ELSE noteTargets = lastOp.before

\* C11's case: a note with the entry T1 was renamed to a path that had the
\* entry T2 of a note long gone.
C11_Witness ==
  /\ lastOp.op = "rename" /\ ResolvesToFile(vault[lastOp.newPath])
  /\ DOMAIN lastOp.before = Paths
  /\ lastOp.before[lastOp.path] = T1
  /\ lastOp.before[lastOp.newPath] = T2

\* C11's other case: a note without entry was renamed to a path that had
\* an entry, and the entry is still there.
C11_WitnessNoEntry ==
  /\ lastOp.op = "rename" /\ ResolvesToFile(vault[lastOp.newPath])
  /\ DOMAIN lastOp.before = {lastOp.newPath}
  /\ noteTargets = lastOp.before

\* C12: clearing the target of a note and deleting the note change the
\* registry alike: the entry of the note is removed when there is one,
\* the registry is what it was when there is none, and doing either a
\* second time changes nothing more; and that is what the two handlers do
\* to the registry when they run.
C12_ClearAndDeleteAgree ==
  /\ [](\A n \in Paths :
          LET cleared == SetNoteTargetReg(noteTargets, n, Null)
              deleted == DeleteReg(noteTargets, n)
          IN  /\ cleared = deleted
              /\ n \notin DOMAIN cleared
              /\ \A k \in Paths \ {n} :
                   /\ k \in DOMAIN cleared <=> k \in DOMAIN noteTargets
                   /\ k \in DOMAIN cleared => cleared[k] = noteTargets[k]
              /\ n \notin DOMAIN noteTargets => cleared = noteTargets
              /\ SetNoteTargetReg(cleared, n, Null) = cleared
              /\ DeleteReg(deleted, n) = deleted)
  /\ [][/\ (lastOp'.op = "set" /\ lastOp'.target = Null) =>
             noteTargets' = DeleteReg(noteTargets, lastOp'.path)
        /\ (lastOp'.op = "delete" /\ ResolvesToFile(vault[lastOp'.path])) =>
             noteTargets' = SetNoteTargetReg(noteTargets, lastOp'.path, Null)
       ]_vars

\* C12's case: a note without entry was deleted, and the registry, which
\* has the entry of another path, is what it was.
C12_Witness ==
  /\ lastOp.op = "delete"
  /\ vault[lastOp.path] = NoFile
  /\ lastOp.path \notin DOMAIN lastOp.before
  /\ noteTargets = lastOp.before
  /\ DOMAIN noteTargets # {}

\* C13: whenever a handler that changed the registry has returned, the
\* persisted registry is the registry in memory; and at every moment,
\* with saves in flight or lost in a crash, the persisted registry is one
\* of the registries the memory has held, whole.
C13_PersistedFollowsMemory ==
  /\ lastOp.op = "returned" => persisted = noteTargets
  /\ persisted \in memoryHistory

\* The second half of C13 on its own: the persisted registry is at every
\* moment one the memory has held.
PersistedIsAPastRegistry == persisted \in memoryHistory

\* The first half of C13 for the moments when no save is in flight.
PersistedIsMemoryWhenQuiet ==
  (Len(saving) = 0 /\ lastOp.op = "returned") => persisted = noteTargets

\* C14: "Save target" on a field that is empty, holds no URL, or holds a
\* URL that names no file on GitHub leaves the registry in memory and the
\* persisted settings as they were: the note keeps the target it had, or
\* none.
C14_BadUrlChangesNothing ==
  [][(lastOp'.op = "save" /\ modal.value \in BadInputs) =>
       /\ noteTargets' = noteTargets
       /\ persisted' = persisted
       /\ githubToken' = githubToken
       /\ modal'.error # ""]_vars

\* C14's case: a note with a target had a URL with "tree" for "blob"
\* submitted and has the target still, and the prompt shows the error.
C14_Witness ==
  /\ lastOp.op = "save"
  /\ modal.open
  /\ modal.value = BuildUrl("github.com", <<"alice", "notes", "tree", "main", "docs">>)
  /\ modal.error = "Invalid GitHub file URL."
  /\ modal.file \in DOMAIN noteTargets
  /\ noteTargets = lastOp.before

\* C16: from an empty registry, whatever is submitted to the prompt and
\* whatever is cleared, renamed or deleted, every entry of the registry,
\* in memory and persisted, has an owner, a repo, a branch and a filePath
\* that are not empty.
C16_NoPartialTarget ==
  \A reg \in {noteTargets, persisted} :
    \A n \in DOMAIN reg :
      /\ reg[n].owner # ""
      /\ reg[n].repo # ""
      /\ reg[n].branch # ""
      /\ reg[n].filePath # ""

\* C16's case: a note whose target came from a URL with two slashes in a
\* row and an escaped file name was renamed, and the target went with it.
C16_Witness ==
  /\ lastOp.op = "rename"
  /\ lastOp.newPath \in DOMAIN noteTargets
  /\ noteTargets[lastOp.newPath].owner = "alice"
  /\ noteTargets[lastOp.newPath].repo = "notes"
  /\ noteTargets[lastOp.newPath].branch = "main"
  /\ noteTargets[lastOp.newPath].filePath = "a b.md"

\* What C15 says a URL built from host and segments is parsed to; the
\* segments it counts are the non-empty ones.
Reference(host, segments) ==
  LET seg == SelectSeq(segments, LAMBDA x : x # "")
  IN  IF host = "github.com" /\ Len(seg) >= 5 /\ seg[3] = "blob"
        THEN [owner    |-> seg[1],
              repo     |-> seg[2],
              branch   |-> seg[4],
              filePath |-> Join(SubSeq(seg, 5, Len(seg)))]
      ELSE IF host = "raw.githubusercontent.com" /\ Len(seg) >= 4
        THEN [owner    |-> seg[1],
              repo     |-> seg[2],
              branch   |-> seg[3],
              filePath |-> Join(SubSeq(seg, 4, Len(seg)))]
      ELSE Null

\* C15: for a URL built from a host and a list of segments, "Save target"
\* stores for the note exactly the owner, repo, branch and filePath of the
\* reference, and stores nothing and shows the error where the reference
\* has a parse error.
C15_ParseAgreesWithReference ==
  lastOp.op = "save" =>
    LET ref == Reference(lastOp.host, lastOp.segments)
    IN  IF ref = Null
          THEN /\ noteTargets = <<>>
               /\ modal.error = "Invalid GitHub file URL."
          ELSE /\ DOMAIN noteTargets = {"A.md"}
               /\ noteTargets["A.md"].owner = ref.owner
               /\ noteTargets["A.md"].repo = ref.repo
               /\ noteTargets["A.md"].branch = ref.branch
               /\ noteTargets["A.md"].filePath = ref.filePath

\* C15's case: a github.com URL of six segments, an empty one and an
\* escaped one among them, was saved: the file path has two parts.
C15_Witness ==
  /\ lastOp.op = "save"
  /\ lastOp.host = "github.com"
  /\ Len(lastOp.segments) = 6
  /\ \E i \in 1 .. 6 : lastOp.segments[i] = ""
  /\ "A.md" \in DOMAIN noteTargets
  /\ noteTargets["A.md"].filePath = "a b.md"
  /\ noteTargets["A.md"].branch = "blob"

\* C15's other cases: a raw URL was saved, and URLs were refused.
C15_WitnessRaw ==
  /\ lastOp.op = "save"
  /\ lastOp.host = "raw.githubusercontent.com"
  /\ "A.md" \in DOMAIN noteTargets
  /\ noteTargets["A.md"].filePath = "alice/a b.md/blob"

C15_WitnessRefused ==
  /\ lastOp.op = "save"
  /\ lastOp.host = "github.com"
  /\ Len(SelectSeq(lastOp.segments, LAMBDA x : x # "")) = 5
  /\ modal.error # ""

\* C17: loading the plugin starts a batch run when isSyncOnLoad is on in
\* the loaded settings, and starts none when it is off.
C17_StartupSyncFollowsFlag ==
  [][(~loaded /\ loaded') =>
       (isSyncOnLoad <=>
          \E p \in DOMAIN proc :
            proc'[p].kind = "batch" /\ proc[p].kind # "batch")]_vars

\* What loading does: it starts a batch run when both isSyncOnLoad and
\* checkStatusOnLoad are on, and none otherwise.
LoadStartsBatchUnderBothFlags ==
  [][(~loaded /\ loaded') =>
       ((isSyncOnLoad /\ checkStatusOnLoad) <=>
          \E p \in DOMAIN proc :
            proc'[p].kind = "batch" /\ proc[p].kind # "batch")]_vars

\* The batch runs in progress.
RunsInProgress ==
  {p \in BatchRuns : proc[p].pc \in {"loop", "insync"}}

\* C19: nothing keeps SyncAllTargetedNotes from being called while a run
\* is in progress: with a run in progress, the ribbon icon and the command
\* start another run at once, and so does the timer unless the run it
\* awaits is its own previous one.
C19_NoSingleFlightGuard ==
  (/\ loaded
   /\ RunsInProgress # {}
   /\ started < MaxInvocations * Cardinality(DOMAIN proc)) =>
     \A q \in DOMAIN proc :
       proc[q].pc \in {"idle", "done"} =>
         /\ ENABLED StartBatch(q)
         /\ (timer.set /\ timer.run \notin RunsInProgress) =>
              ENABLED TimerFires(q)

\* C19's case: two batch runs are in progress at the same time, one of
\* them the timer's.
C19_Witness ==
  /\ Cardinality(RunsInProgress) = 2
  /\ timer.run \in RunsInProgress

\* The PUT of invocation q is accepted in this step.
WriteAccepted(q) ==
  /\ proc[q].spc = "putting"
  /\ proc'[q].spc = "ret"
  /\ proc'[q].putAnswer = "accepted"

\* Invocation p has read the remote file of invocation q and waits for the
\* answer to its own write of it.
BetweenReadAndWrite(p, q) ==
  /\ p # q
  /\ proc[p].spc = "putting"
  /\ Loc(proc[p].target) = Loc(proc[q].target)

C20_RenameIsAtomic ==
  /\ Cardinality(DOMAIN noteTargets) = 1
  /\ \A path \in Paths :
       /\ path \in DOMAIN noteTargets <=> ResolvesToFile(vault[path])
       /\ path \in DOMAIN noteTargets => noteTargets[path] = T1
  /\ \A p \in DOMAIN proc : proc[p].file # "" => proc[p].entryAtCall

\* C20's case: the note was renamed while a batch run waited for the
\* answer to its write and a manual sync for its read: the target is at
\* the new path only.
C20_Witness ==
  /\ DOMAIN noteTargets = {"B.md"}
  /\ vault["A.md"] = NoFile
  /\ \E p \in BatchRuns, q \in ManualSyncs :
       /\ proc[p].file = "A.md" /\ proc[p].spc = "putting"
       /\ proc[q].file = "A.md" /\ proc[q].spc = "getting"

\* The Notices of a sync that gave up on the remote.
RemoteFailureNotices == {"readFailed", "writeFailed"}

\* C21: a call of syncNoteWithGitHub issues at most one GET and at most one
\* PUT, the PUT only after the GET has answered (found or 404); with the
\* read-failure or write-failure Notice shown the call has returned; and a
\* call that has returned issues nothing more: the next step of its
\* invocation is its caller going on, with no request in flight, and a
\* batch run does not come back to the note.
C21_NoRetry ==
  /\ [](\A p \in DOMAIN proc :
          /\ proc[p].gets <= 1 /\ proc[p].puts <= 1
          /\ proc[p].spc = "getting" => proc[p].puts = 0
          /\ proc[p].puts = 1 =>
               proc[p].gets = 1 /\ proc[p].getAnswer \in {"found", "404"}
          /\ proc[p].notice \in RemoteFailureNotices => proc[p].spc = "ret"
          /\ proc[p].kind = "batch" =>
               \A path \in Paths : proc[p].visits[path] <= 1)
  /\ [][\A p \in DOMAIN proc :
          (proc[p].spc = "ret" /\ proc[p].pc = "insync" /\ proc'[p] # proc[p]) =>
            /\ proc'[p].spc = "ret"
            /\ proc'[p].gets = proc[p].gets
            /\ proc'[p].puts = proc[p].puts
            /\ proc'[p].pc \in {"loop", "done"}
            /\ remote' = remote]_vars

\* C21's case: a manual sync whose read found the file and whose write was
\* rejected has ended after one GET and one PUT.
C21_Witness ==
  \E p \in ManualSyncs :
    /\ proc[p].pc = "done"
    /\ proc[p].getAnswer = "found"
    /\ proc[p].putAnswer \in {"stale", "rejected"}
    /\ proc[p].notice = "writeFailed"
    /\ proc[p].gets = 1 /\ proc[p].puts = 1

\* C21's other case: a batch run has ended after the read of its one note
\* failed: one GET, no PUT.
C21_WitnessRead ==
  \E p \in BatchRuns :
    /\ proc[p].pc = "done"
    /\ Len(proc[p].targetedFiles) = 1
    /\ proc[p].notice = "readFailed"
    /\ proc[p].gets = 1 /\ proc[p].puts = 0

\* C22: with every vault read and every request answered in the end, a
\* batch run over a registry that is not empty comes to its end, where it
\* has shown the summary with succeeded + failed the number of entries the
\* registry had when the run started, whatever was set, cleared, renamed
\* or deleted meanwhile; and the summary is shown once: by the step that
\* ends the run, never by a run still in progress.
C22_BatchEndsWithOneSummary ==
  /\ \A p \in Procs :
       (proc[p].kind = "batch" /\ proc[p].pc \in {"loop", "insync"}) ~>
         (/\ proc[p].pc = "done"
          /\ proc[p].summary = "shown"
          /\ proc[p].successCount + proc[p].failureCount
               = Cardinality(proc[p].startKeys))
  /\ [](\A p \in RunsInProgress :
          proc[p].summary = "none" /\ proc[p].startKeys # {})
  /\ [][\A p \in RunsInProgress :
          proc'[p].summary # "none" =>
            proc'[p].pc = "done" /\ proc'[p].summary = "shown"]_vars

\* C22's case: a run over two notes has ended with its summary of two;
\* the entry of its last note was cleared while the run was in progress,
\* so that the sync of the note found no target.
C22_Witness ==
  \E p \in BatchRuns :
    /\ proc[p].pc = "done" /\ proc[p].summary = "shown"
    /\ proc[p].startKeys = Paths
    /\ proc[p].notice = "noTarget"
    /\ proc[p].successCount + proc[p].failureCount = 2
    /\ DOMAIN noteTargets # Paths

\* A call of syncNoteWithGitHub is in flight: it waits for the vault or
\* for the answer to a request.
InFlight(r) == r.spc \in {"reading", "getting", "putting"}

\* The requests of the current call of r that have not been answered.
RequestsInFlight(r) ==
  (r.gets + r.puts)
    - ((IF r.getAnswer = "none" THEN 0 ELSE 1)
         + (IF r.putAnswer = "none" THEN 0 ELSE 1))

\* C23: a batch run syncs its notes one after another: the loop is at its
\* head only with no call in flight, the call it waits for has at most one
\* request unanswered, and the step that takes up the next path is taken
\* only when the sync of the path before has returned or thrown and the
\* loop has resumed from it.
C23_OneNoteAtATime ==
  /\ [](\A p \in BatchRuns :
          /\ proc[p].pc = "loop" => ~InFlight(proc[p])
          /\ InFlight(proc[p]) => proc[p].pc = "insync"
          /\ RequestsInFlight(proc[p]) \in {0, 1}
          /\ RequestsInFlight(proc[p]) = 1 <=>
               proc[p].spc \in {"getting", "putting"})
  /\ [][\A p \in DOMAIN proc :
          (/\ proc[p].kind = "batch" /\ proc'[p].kind = "batch"
           /\ proc'[p].visits # proc[p].visits
           /\ proc[p].pc # "done") =>
            /\ ~InFlight(proc[p])
            /\ proc[p].pc = "loop"
            /\ proc[p].i > 1 => proc[p].spc \in {"none", "ret", "throw"}
            /\ \E path \in Paths :
                 /\ proc'[p].visits[path] = proc[p].visits[path] + 1
                 /\ \A other \in Paths \ {path} :
                      proc'[p].visits[other] = proc[p].visits[other]]_vars

\* C23's case: a run over two notes waits for the answer to the write of
\* its second note, after the write of its first note was accepted.
C23_Witness ==
  \E p \in BatchRuns :
    /\ proc[p].pc = "insync" /\ proc[p].i = 2
    /\ proc[p].spc = "putting"
    /\ Cardinality(proc[p].accepted) = 1
    /\ proc[p].file \notin proc[p].accepted

\* A batch run is started in this step.
BatchStarted ==
  \E p \in DOMAIN proc :
    /\ proc[p].pc \in {"idle", "done"}
    /\ proc'[p].kind = "batch"
    /\ proc'[p] # proc[p]

\* C24: once onunload has run, the timer set at load starts no batch run:
\* from then on no step starts one.
C24_UnloadStopsTimer == [][unloaded => ~BatchStarted]_vars

\* What unloading does: it leaves the timer as it is.
UnloadLeavesTimer == [][unloaded' => timer'.set = timer.set]_vars

\* The timer has started a batch run with the plugin unloaded, and the run
\* is in progress.
TimerRunAfterUnload ==
  /\ unloaded
  /\ timer.run \in RunsInProgress
  /\ started = 1

\* An interval that is a number of at least one minute.
AtLeastOneMinute(interval) == ~interval.nan /\ interval.minutes >= 1

C25_WitnessStillRuns ==
  /\ timer.set /\ timer.run \in RunsInProgress
  /\ syncinterval = NaN

\* A step of a sync or of a batch run: an invocation starts, goes on or
\* ends.
SyncStep == proc' # proc

\* C26: the steps of syncNoteWithGitHub and SyncAllTargetedNotes, whatever
\* their outcome, leave the registry in memory, the persisted settings,
\* the token, the flags and the interval, and the vault with the text of
\* every note as they are; of the remote they change at most the file of
\* the target whose write is accepted.
C26_SyncOnlyWritesRemote ==
  [][SyncStep =>
       /\ noteTargets' = noteTargets
       /\ persisted' = persisted
       /\ githubToken' = githubToken
       /\ isSyncOnLoad' = isSyncOnLoad
       /\ syncinterval' = syncinterval
       /\ vault' = vault
       /\ \A loc \in Locs :
            remote'[loc] # remote[loc] =>
              \E p \in DOMAIN proc :
                /\ WriteAccepted(p)
                /\ loc = Loc(proc[p].target)
                /\ remote'[loc] = proc[p].bodyContent]_vars

\* C26's case: a batch run over two notes has ended, one note pushed and
\* the other failed; both notes are in the vault and in the registry, in
\* memory and persisted, and the remote file of the pushed note holds it.
C26_Witness ==
  \E p \in BatchRuns :
    /\ proc[p].pc = "done"
    /\ Cardinality(proc[p].accepted) = 1
    /\ proc[p].notice \in RemoteFailureNotices
    /\ DOMAIN noteTargets = Paths /\ persisted = noteTargets
    /\ \A path \in Paths : vault[path] \in Texts
    /\ \E path \in proc[p].accepted :
         remote[Loc(noteTargets[path])] = Base64(vault[path])

\* Every key of the registry is the path of a note of the vault.
KeysAreNotes == \A path \in DOMAIN noteTargets : ResolvesToFile(vault[path])

\* C27: from an empty registry, after every interleaving of opening the
\* prompt on a note of the vault, "Save target" and "Clear target" in it,
\* and renames and deletes of notes, every key of the registry is the path
\* of a note of the vault.
C27_RegistryKeysAreNotes == KeysAreNotes

\* What holds of the keys: a step makes a key that is no note only by
\* "Save target" in a prompt whose note has been deleted since the prompt
\* was opened; renames, deletes and "Clear target" never do, and a rename
\* takes the note of an open prompt along.
OnlyLateSaveBreaksKeys ==
  [][(KeysAreNotes /\ ~KeysAreNotes') =>
       /\ lastOp'.op = "save"
       /\ modal.open /\ vault[modal.file] = NoFile
       /\ DOMAIN noteTargets' = DOMAIN noteTargets \cup {modal.file}]_vars

\* The prompt of a note was open while the note was deleted, and "Save
\* target" has given the registry an entry at the path of the deleted note.
SavedAfterDelete ==
  /\ lastOp.op = "save" /\ ~modal.open
  /\ vault[modal.file] = NoFile
  /\ modal.file \in DOMAIN noteTargets
  /\ persisted = noteTargets

====
